---- MODULE Spec2Model ----
(***************************************************************************)
(* k8s-find-obj: collection-and-scan engine.                               *)
(*                                                                         *)
(* main (src/cmd/main.go) runs Validate, Init and Run in sequence.  Run    *)
(* calls the five collection routines in a fixed order and then search.    *)
(*                                                                         *)
(* A Go string is a sequence of bytes.  A byte is written as a one-letter  *)
(* TLA+ string when it is printable ASCII ("a", "/", " ") and as its two   *)
(* hexadecimal digits otherwise ("0A" is the newline, "C8" "BA" is the     *)
(* UTF-8 encoding of U+023A).  Offsets are Go's: 0-based, half-open.       *)
(***************************************************************************)
EXTENDS Integers, Sequences, FiniteSets, TLC

VARIABLES
    pc,                \* position of main: "main", "Init", "Run", "done", "fatal", "panic"
    next,              \* index into searchFuncs of the routine Run calls next (6: search)
    err,               \* the error main passes to log.Fatal, or nil
    Kubeconfig,        \* Application.Kubeconfig
    WhereToSearch,     \* Application.WhereToSearch
    WhatToSearch,      \* Application.WhatToSearch
    Except,            \* Application.Except
    whatToSearchRe,    \* Application.whatToSearchRe
    exceptRe,          \* Application.exceptRe
    clientset,         \* Application.clientset
    KubernetesObjects, \* Application.KubernetesObjects
    logs,              \* the lines handed to slog, in order
    calls,             \* the provider List calls made, in order (the kind of each)
    returned,          \* the items the provider returned, call by call
    clientBuilds       \* number of clientcmd.BuildConfigFromFlags invocations

vars == <<pc, next, err, Kubeconfig, WhereToSearch, WhatToSearch, Except,
          whatToSearchRe, exceptRe, clientset, KubernetesObjects, logs,
          calls, returned, clientBuilds>>

nil == "nil"

\* The most objects the provider hands out over one run.
MaxObjects == 2

\* NewApplication: ShowTails: 10
ShowTails == 10

-----------------------------------------------------------------------------
(* Strings *)

Upper == <<"A","B","C","D","E","F","G","H","I","J","K","L","M",
           "N","O","P","Q","R","S","T","U","V","W","X","Y","Z">>
Lower == <<"a","b","c","d","e","f","g","h","i","j","k","l","m",
           "n","o","p","q","r","s","t","u","v","w","x","y","z">>

RECURSIVE Repeat(_, _)
\* strings.Repeat
Repeat(s, n) == IF n = 0 THEN <<>> ELSE s \o Repeat(s, n - 1)

\* Width in bytes of the UTF-8 sequence a lead byte opens.
RuneLen(b) ==
    CASE b = "C8" -> 2
      [] b = "E2" -> 3
      [] OTHER    -> 1

\* unicode.ToLower on one encoded rune:
\*   U+0041..U+005A -> U+0061..U+007A,
\*   U+023A (C8 BA) -> U+2C65 (E2 B1 A5),
\*   U+212A (E2 84 AA, the Kelvin sign) -> U+006B "k",
\*   every other rune of the model is its own lower case.
AsciiLower ==
    [c \in {Upper[i] : i \in DOMAIN Upper} |-> Lower[CHOOSE i \in DOMAIN Upper : Upper[i] = c]]

LowerRune(r) ==
    IF r = <<"C8", "BA">> THEN <<"E2", "B1", "A5">>
    ELSE IF r = <<"E2", "84", "AA">> THEN <<"k">>
    ELSE IF Len(r) = 1 /\ r[1] \in DOMAIN AsciiLower THEN <<AsciiLower[r[1]]>>
    ELSE r

RECURSIVE ToLowerFrom(_, _, _)
\* The loop of strings.ToLower from byte offset i on, acc being the output
\* so far: decode a rune, map it, encode it.
ToLowerFrom(s, i, acc) ==
    IF i >= Len(s) THEN acc
    ELSE LET w == RuneLen(s[i + 1])
             n == IF i + w <= Len(s) THEN w ELSE Len(s) - i
         IN  ToLowerFrom(s, i + n, acc \o LowerRune(SubSeq(s, i + 1, i + n)))

\* The bytes at or above utf8.RuneSelf that occur in the model.
NonASCII == {"C8", "BA", "E2", "B1", "A5", "84", "AA"}

\* strings.ToLower: an all-ASCII string is mapped byte by byte, any other
\* goes through strings.Map(unicode.ToLower, s).
ToLower(s) ==
    IF \A i \in DOMAIN s : s[i] \notin NonASCII
    THEN [i \in DOMAIN s |-> IF s[i] \in DOMAIN AsciiLower THEN AsciiLower[s[i]] ELSE s[i]]
    ELSE ToLowerFrom(s, 0, <<>>)

RECURSIVE SplitFrom(_, _, _, _, _)
\* The loop of strings.Split(s, sep) for a one-byte separator, at offset i,
\* the current token starting at offset from.
SplitFrom(s, sep, from, i, acc) ==
    IF i >= Len(s) THEN Append(acc, SubSeq(s, from + 1, Len(s)))
    ELSE IF s[i + 1] = sep
         THEN SplitFrom(s, sep, i + 1, i + 1, Append(acc, SubSeq(s, from + 1, i)))
         ELSE SplitFrom(s, sep, from, i + 1, acc)

\* strings.Split: always at least one token.
Split(s, sep) == SplitFrom(s, sep, 0, 0, <<>>)

\* slices.Contains
Contains(xs, x) == \E i \in DOMAIN xs : xs[i] = x

\* strings.ReplaceAll(text, "\n", " ")
ReplaceNewlines(text) == [i \in DOMAIN text |-> IF text[i] = "0A" THEN " " ELSE text[i]]

\* s[lo:hi] is defined when 0 <= lo <= hi <= len(s); otherwise Go panics.
SliceOK(s, lo, hi) == 0 <= lo /\ lo <= hi /\ hi <= Len(s)
Slice(s, lo, hi) == SubSeq(s, lo + 1, hi)

-----------------------------------------------------------------------------
(* regexp, for the syntax the runs below use: literal bytes, "^" as the    *)
(* first byte, "$" as the last byte; an unclosed "(" does not compile.     *)

NoRegexp == [set |-> FALSE, bol |-> FALSE, eol |-> FALSE, lit |-> <<>>]

\* regexp.Compile returns an error ("missing closing )").
CompileFails(p) == Contains(p, "(")

\* regexp.Compile, when it returns no error.
Compile(p) ==
    LET bol == p # <<>> /\ p[1] = "^"
        q   == IF bol THEN Tail(p) ELSE p
        eol == q # <<>> /\ q[Len(q)] = "$"
    IN  [set |-> TRUE, bol |-> bol, eol |-> eol,
         lit |-> IF eol THEN SubSeq(q, 1, Len(q) - 1) ELSE q]

\* The expression matches s at [i, i + len(lit)).
MatchAt(re, s, i) ==
    /\ i + Len(re.lit) <= Len(s)
    /\ Slice(s, i, i + Len(re.lit)) = re.lit
    /\ re.bol => i = 0
    /\ re.eol => i + Len(re.lit) = Len(s)

\* (*Regexp).MatchString
MatchString(re, s) == \E i \in 0..Len(s) : MatchAt(re, s, i)

RECURSIVE FirstMatch(_, _, _)
\* The leftmost match starting at or after pos, <<>> when there is none.
FirstMatch(re, s, pos) ==
    IF pos > Len(s) THEN <<>>
    ELSE IF MatchAt(re, s, pos) THEN <<pos, pos + Len(re.lit)>>
    ELSE FirstMatch(re, s, pos + 1)

\* allMatches, after the match m was found from pos: the next pos, and
\* whether m is delivered.  An empty match directly after the previous match
\* is dropped, and after an empty match the scan moves on by one rune.
AfterMatch(s, pos, prevMatchEnd, m) ==
    IF m[2] = pos
    THEN [pos    |-> pos + (IF pos < Len(s) THEN RuneLen(s[pos + 1]) ELSE 1),
          accept |-> m[1] # prevMatchEnd]
    ELSE [pos |-> m[2], accept |-> TRUE]

RECURSIVE FindAllFrom(_, _, _, _, _)
\* The loop of (*Regexp).allMatches: successive non-overlapping matches.
FindAllFrom(re, s, pos, prevMatchEnd, acc) ==
    IF pos > Len(s) THEN acc
    ELSE LET m == FirstMatch(re, s, pos)
         IN  IF m = <<>> THEN acc
             ELSE LET a == AfterMatch(s, pos, prevMatchEnd, m)
                  IN  FindAllFrom(re, s, a.pos, m[2],
                                  IF a.accept THEN Append(acc, m) ELSE acc)

\* (*Regexp).FindAllStringIndex(s, -1); the empty result stands for nil.
FindAllStringIndex(re, s) == FindAllFrom(re, s, 0, -1, <<>>)

-----------------------------------------------------------------------------
(* Inputs: the command line and what the cluster holds. *)

typeOfPods         == <<"P","o","d","s">>
typeOfConfigMaps   == <<"C","o","n","f","i","g","M","a","p","s">>
typeOfDeployments  == <<"D","e","p","l","o","y","m","e","n","t","s">>
typeOfStatefulSets == <<"S","t","a","t","e","f","u","l","S","e","t","s">>
typeOfCronJobs     == <<"C","r","o","n","J","o","b","s">>

\* The order of searchFuncs in Run.
Kinds == <<typeOfPods, typeOfConfigMaps, typeOfDeployments,
           typeOfStatefulSets, typeOfCronJobs>>

\* main: the default of -where
DefaultWhere == <<"*">>

\* Values of -where.
Scopes ==
    { <<>>,
      DefaultWhere,
      <<"p","o","d","s",",","c","r","o","n","j","o","b","s">>,
      <<"P","O","D","S">>,
      <<"p","o","d">>,
      <<"*",",","p","o","d","s">>,
      <<"C","o","n","f","i","g","M","a","p","s",",","d","e","p","l","o","y","m","e","n","t","s",
        ",","s","t","a","t","e","f","u","l","s","e","t","s">>,
      ToLower(typeOfPods) \o <<",">> \o ToLower(typeOfConfigMaps) \o <<",">>
        \o ToLower(typeOfDeployments) \o <<",">> \o ToLower(typeOfStatefulSets)
        \o <<",">> \o ToLower(typeOfCronJobs) }

\* Values of -find.
Finds == { <<>>, <<"f","o","o">>, <<"F","o","o">>, <<"(">> }

\* Values of -except.
Excepts == { <<>>, <<"^","n","s","1","/","p","1","$">>, <<"(">> }

\* Values of -kubeconfig (the default is $KUBECONFIG, which may be unset).
Kubeconfigs == { <<>>, <<"k">> }

\* What the provider can return: name, namespace and the text of String().
RawObjects ==
    { \* the object of the end-to-end scenario
      [Name |-> <<"p","1">>, Namespace |-> <<"n","s","1">>,
       Text |-> <<"f","o","o"," ","B","A","R"," ","f","o","o">>],
      \* a match far from both ends, mixed case, next to a newline
      [Name |-> <<"p","2">>, Namespace |-> <<"n","s","1">>,
       Text |-> Repeat(<<"x">>, 12) \o <<"F","o","O","0A","b","a","r">> \o Repeat(<<"y">>, 12)],
      \* runes whose lower case is one byte longer (U+023A), then a match
      [Name |-> <<"p","1">>, Namespace |-> <<"n","s","2">>,
       Text |-> Repeat(<<"C8","BA">>, 14) \o <<"f","o","o">>],
      \* runes whose lower case is two bytes shorter (U+212A), then a match
      [Name |-> <<"p","3">>, Namespace |-> <<"n","s","2">>,
       Text |-> Repeat(<<"E2","84","AA">>, 5) \o <<"f","o","o">> \o Repeat(<<"z">>, 12)] }

\* Outcomes of building the cluster client from the kubeconfig.
ClientOutcomes == {"ok", "BuildConfigFromFlags", "NewForConfig"}

ProviderError == <<"error">>

\* What one List call can answer: an error, or at most cap items.
ProviderResponses(cap) ==
    {ProviderError} \cup { <<"items", items>> :
        items \in UNION { [1..n -> RawObjects] : n \in 0..cap } }

-----------------------------------------------------------------------------
(* The program *)

NoError == [msg |-> "", arg |-> <<>>]
Error(msg, arg) == [msg |-> msg, arg |-> arg]

\* slog lines: level, message and the attributes attached with slog.With.
Line(level, msg, attrs) == [level |-> level, msg |-> msg, attrs |-> attrs]

\* KubernetesObject
Object(kind, raw) ==
    [Kind |-> kind, Name |-> raw.Name, Namespace |-> raw.Namespace, Object |-> raw.Text]

\* Application.Validate: the error it returns.
ValidateError ==
    IF Kubeconfig = <<>> THEN Error("kubeconfig is required", <<>>)
    ELSE IF WhereToSearch = <<>> THEN Error("where-to-search is required", <<>>)
    ELSE IF WhatToSearch = <<>> THEN Error("what-to-search is required", <<>>)
    ELSE NoError

\* main: application.Validate(), log.Fatal on error.
Validate ==
    /\ pc = "main"
    /\ err' = ValidateError
    /\ pc' = IF ValidateError # NoError THEN "fatal" ELSE "Init"
    /\ UNCHANGED <<next, Kubeconfig, WhereToSearch, WhatToSearch, Except, whatToSearchRe,
                   exceptRe, clientset, KubernetesObjects, logs, calls, returned,
                   clientBuilds>>

\* A mutant of InitResult: the client is built before the patterns are compiled.
InitResult_clientFirst(outcome) ==
    LET none == [err |-> NoError, whatToSearchRe |-> whatToSearchRe,
                 exceptRe |-> exceptRe, clientset |-> clientset, builds |-> 1]
    IN  IF outcome = "BuildConfigFromFlags"
        THEN [none EXCEPT !.err = Error("error in clientcmd.BuildConfigFromFlags", <<>>)]
        ELSE IF outcome = "NewForConfig"
        THEN [none EXCEPT !.err = Error("error in kubernetes.NewForConfig", <<>>)]
        ELSE IF CompileFails(WhatToSearch)
        THEN [none EXCEPT !.err = Error("error in regexp.Compile ", WhatToSearch),
                          !.clientset = "clientset"]
        ELSE IF Except # <<>> /\ CompileFails(Except)
        THEN [none EXCEPT !.err = Error("error in regexp.Compile ", Except),
                          !.clientset = "clientset"]
        ELSE [err |-> NoError, whatToSearchRe |-> Compile(WhatToSearch),
              exceptRe |-> IF Except # <<>> THEN Compile(Except) ELSE exceptRe,
              clientset |-> "clientset", builds |-> 1]

\* Application.Init with the client construction ending in `outcome`: the
\* error returned, the fields assigned and whether BuildConfigFromFlags ran.
InitResult(outcome) ==
    LET none == [err |-> NoError, whatToSearchRe |-> whatToSearchRe,
                 exceptRe |-> exceptRe, clientset |-> clientset, builds |-> 0]
    IN  IF CompileFails(WhatToSearch)
        THEN [none EXCEPT !.err = Error("error in regexp.Compile ", WhatToSearch)]
        ELSE IF Except # <<>> /\ CompileFails(Except)
        THEN [none EXCEPT !.err = Error("error in regexp.Compile ", Except)]
        ELSE LET exc == IF Except # <<>> THEN Compile(Except) ELSE exceptRe
             IN  IF outcome = "BuildConfigFromFlags"
                 THEN [none EXCEPT !.err = Error("error in clientcmd.BuildConfigFromFlags", <<>>),
                                   !.exceptRe = exc, !.builds = 1]
                 ELSE IF outcome = "NewForConfig"
                 THEN [none EXCEPT !.err = Error("error in kubernetes.NewForConfig", <<>>),
                                   !.exceptRe = exc, !.builds = 1]
                 ELSE [err |-> NoError, whatToSearchRe |-> Compile(WhatToSearch),
                       exceptRe |-> exc, clientset |-> "clientset", builds |-> 1]

\* main: application.Init(ctx), log.Fatal on error.
Init ==
    /\ pc = "Init"
    /\ \E outcome \in ClientOutcomes :
         \E r \in {InitResult(outcome)} :
             /\ err' = r.err
             /\ whatToSearchRe' = r.whatToSearchRe
             /\ exceptRe' = r.exceptRe
             /\ clientset' = r.clientset
             /\ clientBuilds' = clientBuilds + r.builds
             /\ pc' = IF r.err # NoError THEN "fatal" ELSE "Run"
    /\ UNCHANGED <<next, Kubeconfig, WhereToSearch, WhatToSearch, Except,
                   KubernetesObjects, logs, calls, returned>>

\* Application.isInWhere
isInWhere(obj) ==
    LET objs == Split(ToLower(WhereToSearch), ",")
    IN  Contains(objs, ToLower(obj))

GettingLine(typeOf) ==
    Line("INFO", <<"G","e","t","t","i","n","g"," ">> \o typeOf \o <<" ",".",".",".">>, <<>>)

\* A mutant of AppendObjects: the new objects go in front of the store.
AppendObjects_prepend(objects, typeOf, items) ==
    [i \in DOMAIN items |-> Object(typeOf, items[i])] \o objects

\* The append loop of a collection routine.
AppendObjects(objects, typeOf, items) ==
    objects \o [i \in DOMAIN items |-> Object(typeOf, items[i])]

\* A mutant of get: the routine does not ask isInWhere.
get_noGate(typeOf, resp) ==
    IF resp = ProviderError
    THEN [err |-> Error("error in ", typeOf), objects |-> KubernetesObjects,
          logs |-> Append(logs, GettingLine(typeOf)), calls |-> Append(calls, typeOf),
          returned |-> Append(returned, ProviderError)]
    ELSE [err |-> NoError,
          objects |-> AppendObjects(KubernetesObjects, typeOf, resp[2]),
          logs |-> Append(logs, GettingLine(typeOf)),
          calls |-> Append(calls, typeOf),
          returned |-> Append(returned, resp)]

\* A collection routine (getPods, getConfigmaps, getDeployments,
\* getStatefulSets, getCronJobs) for kind typeOf, the provider answering resp:
\* the error returned and the state it leaves.
get(typeOf, resp) ==
    LET same == [err |-> NoError, objects |-> KubernetesObjects, logs |-> logs,
                 calls |-> calls, returned |-> returned]
    IN  IF ~isInWhere(typeOf) THEN same
        ELSE IF resp = ProviderError
        THEN [same EXCEPT !.err = Error("error in ", typeOf),
                          !.logs = Append(logs, GettingLine(typeOf)),
                          !.calls = Append(calls, typeOf),
                          !.returned = Append(returned, ProviderError)]
        ELSE [err |-> NoError,
              objects |-> AppendObjects(KubernetesObjects, typeOf, resp[2]),
              logs |-> Append(logs, GettingLine(typeOf)),
              calls |-> Append(calls, typeOf),
              returned |-> Append(returned, resp)]

\* A mutant of RunAfter: the loop of Run drops the error and goes on.
RunAfter_ignoreError(i, e) ==
    [pc |-> "Run", next |-> i + 1, err |-> NoError]

\* Run: what follows the call of searchFuncs[i] that returned e.
RunAfter(i, e) ==
    IF e # NoError THEN [pc |-> "fatal", next |-> i, err |-> e]
    ELSE [pc |-> "Run", next |-> i + 1, err |-> NoError]

\* One iteration of the loop of Run: the call of f, the routine of kind typeOf.
RunCall(typeOf) ==
    /\ pc = "Run"
    /\ \E resp \in ProviderResponses(MaxObjects - Len(KubernetesObjects)) :
         \E r \in {get(typeOf, resp)} : \E a \in {RunAfter(next, r.err)} :
             /\ KubernetesObjects' = r.objects
             /\ logs' = r.logs
             /\ calls' = r.calls
             /\ returned' = r.returned
             /\ pc' = a.pc
             /\ next' = a.next
             /\ err' = a.err
    /\ UNCHANGED <<Kubeconfig, WhereToSearch, WhatToSearch, Except, whatToSearchRe,
                   exceptRe, clientset, clientBuilds>>

\* searchFuncs[0..4], each called by the loop of Run at its index.
getPods ==
    /\ next = 1
    /\ RunCall(typeOfPods)

getConfigmaps ==
    /\ next = 2
    /\ RunCall(typeOfConfigMaps)

getDeployments ==
    /\ next = 3
    /\ RunCall(typeOfDeployments)

getStatefulSets ==
    /\ next = 4
    /\ RunCall(typeOfStatefulSets)

getCronJobs ==
    /\ next = 5
    /\ RunCall(typeOfCronJobs)

\* A mutant of Ignored: the exclude pattern is matched against the name alone.
Ignored_nameOnly(exc, obj) ==
    exc.set /\ MatchString(exc, obj.Name)

\* search: the object is skipped by the exclude pattern.
Ignored(exc, obj) ==
    exc.set /\ MatchString(exc, obj.Namespace \o <<"/">> \o obj.Name)

\* search: the bounds of the slice taken for the match loc.
Window(obj, loc) ==
    LET start == loc[1] - ShowTails
        end   == loc[2] + ShowTails
        max   == Len(obj.Object)
    IN  [start |-> IF start < 0 THEN 0 ELSE start,
         end   |-> IF end > max THEN max ELSE end]

Attrs(obj) == <<obj.Kind, obj.Name, obj.Namespace>>

RECURSIVE searchLocs(_, _, _, _)
\* search: the loop over locs from locs[j] on, `lines` being what was logged
\* so far: the lines logged, and whether a slice expression panicked (which
\* ends the process).
searchLocs(obj, locs, j, lines) ==
    IF j > Len(locs) THEN [lines |-> lines, panicked |-> FALSE]
    ELSE LET w == Window(obj, locs[j])
         IN  IF ~SliceOK(obj.Object, w.start, w.end)
             THEN [lines |-> lines, panicked |-> TRUE]
             ELSE LET text == ReplaceNewlines(Slice(obj.Object, w.start, w.end))
                  IN  searchLocs(obj, locs, j + 1,
                                 Append(lines, Line("INFO", text, Attrs(obj))))

IgnoredLine(obj) == Line("DEBUG", <<"i","g","n","o","r","e","d">>, Attrs(obj))

RECURSIVE searchObjects(_, _, _, _, _)
\* search: the loop over a.KubernetesObjects from objects[i] on.
searchObjects(objects, re, exc, i, lines) ==
    IF i > Len(objects) THEN [lines |-> lines, panicked |-> FALSE]
    ELSE LET obj == objects[i]
         IN  IF Ignored(exc, obj)
             THEN searchObjects(objects, re, exc, i + 1, Append(lines, IgnoredLine(obj)))
             ELSE LET locs == FindAllStringIndex(re, ToLower(obj.Object))
                      here == searchLocs(obj, locs, 1, lines)
                  IN  IF here.panicked THEN here
                      ELSE searchObjects(objects, re, exc, i + 1, here.lines)

\* A mutant of search: the scan consumes the store.
search_drain ==
    /\ pc = "Run"
    /\ next = Len(Kinds) + 1
    /\ \E r \in {searchObjects(KubernetesObjects, whatToSearchRe, exceptRe, 1, logs)} :
           /\ logs' = r.lines
           /\ pc' = IF r.panicked THEN "panic" ELSE "done"
    /\ KubernetesObjects' = <<>>
    /\ UNCHANGED <<next, err, Kubeconfig, WhereToSearch, WhatToSearch, Except,
                   whatToSearchRe, exceptRe, clientset, calls, returned, clientBuilds>>

\* Run: a.search(), then return nil.
search ==
    /\ pc = "Run"
    /\ next = Len(Kinds) + 1
    /\ \E r \in {searchObjects(KubernetesObjects, whatToSearchRe, exceptRe, 1, logs)} :
           /\ logs' = r.lines
           /\ pc' = IF r.panicked THEN "panic" ELSE "done"
    /\ UNCHANGED <<next, err, Kubeconfig, WhereToSearch, WhatToSearch, Except,
                   whatToSearchRe, exceptRe, clientset, KubernetesObjects, calls,
                   returned, clientBuilds>>

\* The initial state: NewApplication, then flag.Parse filling the exported
\* fields from the command line.
NewApplication ==
    /\ pc = "main"
    /\ next = 1
    /\ err = NoError
    /\ Kubeconfig \in Kubeconfigs
    /\ WhereToSearch \in Scopes
    /\ WhatToSearch \in Finds
    /\ Except \in Excepts
    /\ whatToSearchRe = NoRegexp
    /\ exceptRe = NoRegexp
    /\ clientset = nil
    /\ KubernetesObjects = <<>>
    /\ logs = <<>>
    /\ calls = <<>>
    /\ returned = <<>>
    /\ clientBuilds = 0

Next ==
    \/ Validate
    \/ Init
    \/ getPods
    \/ getConfigmaps
    \/ getDeployments
    \/ getStatefulSets
    \/ getCronJobs
    \/ search

Spec == NewApplication /\ [][Next]_vars

-----------------------------------------------------------------------------
(* Vocabulary of the properties *)

\* The match reports among the logged lines.
IsReport(l) == l.level = "INFO" /\ l.attrs # <<>>
Reports == SelectSeq(logs, IsReport)

IsIgnoredLine(l) == l.level = "DEBUG"

\* Position of a kind in the fixed precedence.
KindIndex(k) == CHOOSE i \in DOMAIN Kinds : Kinds[i] = k

\* The scan phase has run (to its end, or to a panic).
Scanned == pc \in {"done", "panic"}

RECURSIVE Flatten(_, _, _)
\* The concatenation of seqs[i], seqs[i+1], ...
Flatten(seqs, i, acc) ==
    IF i > Len(seqs) THEN acc ELSE Flatten(seqs, i + 1, acc \o seqs[i])

\* What the answers of the provider, call by call, amount to as objects.
Fetched ==
    Flatten([j \in DOMAIN returned |->
                IF returned[j] = ProviderError THEN <<>>
                ELSE [i \in DOMAIN returned[j][2] |-> Object(calls[j], returned[j][2][i])]],
            1, <<>>)

\* The exclusion key "<namespace>/<name>" matches the configured pattern.
KeyExcluded(namespace, name) ==
    /\ Except # <<>>
    /\ ~CompileFails(Except)
    /\ MatchString(Compile(Except), namespace \o <<"/">> \o name)

Max(a, b) == IF a >= b THEN a ELSE b
Min(a, b) == IF a <= b THEN a ELSE b

\* The matches of the search pattern in the lowercased text of obj.
Matches(obj) == FindAllStringIndex(Compile(WhatToSearch), ToLower(obj.Object))

\* The report the window rule gives for the match [loc[1], loc[2]) in obj.
WindowReport(obj, loc) ==
    Line("INFO",
         ReplaceNewlines(SubSeq(obj.Object,
                                Max(0, loc[1] - ShowTails) + 1,
                                Min(Len(obj.Object), loc[2] + ShowTails))),
         <<obj.Kind, obj.Name, obj.Namespace>>)

\* One report per match of every object that is not excluded, in store order.
WindowReports ==
    Flatten([i \in DOMAIN KubernetesObjects |->
                IF KeyExcluded(KubernetesObjects[i].Namespace, KubernetesObjects[i].Name)
                THEN <<>>
                ELSE [j \in DOMAIN Matches(KubernetesObjects[i]) |->
                        WindowReport(KubernetesObjects[i], Matches(KubernetesObjects[i])[j])]],
            1, <<>>)

\* The configuration fails validation or a pattern does not compile.
BadConfiguration ==
    \/ Kubeconfig = <<>>
    \/ WhereToSearch = <<>>
    \/ WhatToSearch = <<>>
    \/ CompileFails(WhatToSearch)
    \/ (Except # <<>> /\ CompileFails(Except))

-----------------------------------------------------------------------------
(* Properties *)

\* C1: a kind is eligible (isInWhere) if and only if its lowercased name is
\* one of the comma-separated tokens of the lowercased scope or the scope has
\* the token "*"; under the default scope "*" a completed run has called the
\* provider for all five kinds.
C1_EligibleIffTokenOrWildcard ==
    LET tokens == Split(ToLower(WhereToSearch), ",")
    IN  /\ \A i \in DOMAIN Kinds :
              isInWhere(Kinds[i]) <=>
                  (Contains(tokens, ToLower(Kinds[i])) \/ Contains(tokens, <<"*">>))
        /\ (pc = "done" /\ WhereToSearch = DefaultWhere) => calls = Kinds

\* C2: a provider error is the last provider call of the run; Run has
\* returned that error wrapped with the kind of the failing call, no report
\* has been logged, and the store holds exactly the objects fetched by the
\* earlier calls.
C2_ProviderErrorHaltsRun ==
    /\ \A j \in DOMAIN returned :
          returned[j] = ProviderError =>
              /\ j = Len(returned)
              /\ pc = "fatal"
              /\ err = Error("error in ", calls[j])
              /\ Reports = <<>>
              /\ KubernetesObjects = Fetched
    /\ (pc = "fatal" /\ err.msg = "error in ") =>
          (returned # <<>> /\ returned[Len(returned)] = ProviderError)

C2_Witness ==
    /\ pc = "fatal"
    /\ Len(calls) >= 2
    /\ returned[Len(returned)] = ProviderError
    /\ err = Error("error in ", typeOfCronJobs)
    /\ KubernetesObjects # <<>>

\* C3: every provider call, every "Getting <Kind> ..." line and every stored
\* object is of a kind isInWhere accepts, and a routine never fails for a kind
\* it rejects; with the scope "pods,cronjobs" a completed run has called the
\* provider for Pods and CronJobs and for nothing else.
C3_OnlyEligibleKindsFetched ==
    /\ \A eligible \in {{i \in DOMAIN Kinds : isInWhere(Kinds[i])}} :
          /\ \A j \in DOMAIN calls : KindIndex(calls[j]) \in eligible
          /\ \A i \in DOMAIN Kinds \ eligible :
                /\ \A j \in DOMAIN logs : logs[j] # GettingLine(Kinds[i])
                /\ \A j \in DOMAIN KubernetesObjects : KubernetesObjects[j].Kind # Kinds[i]
                /\ err # Error("error in ", Kinds[i])
    /\ (pc = "done" /\ WhereToSearch = <<"p","o","d","s",",","c","r","o","n","j","o","b","s">>)
          => calls = <<typeOfPods, typeOfCronJobs>>

C3_Witness ==
    /\ pc = "done"
    /\ WhereToSearch = <<"p","o","d","s",",","c","r","o","n","j","o","b","s">>
    /\ calls = <<typeOfPods, typeOfCronJobs>>
    /\ \E j \in DOMAIN KubernetesObjects : KubernetesObjects[j].Kind = typeOfCronJobs

\* C4: the store is kind-major in the fixed precedence, the provider calls
\* were made in that precedence, and the store is exactly the concatenation
\* of the provider's answers, each in the order returned.
C4_StoreKindMajor ==
    /\ \A i, j \in DOMAIN KubernetesObjects :
          i < j => KindIndex(KubernetesObjects[i].Kind) <= KindIndex(KubernetesObjects[j].Kind)
    /\ \A i, j \in DOMAIN calls : i < j => KindIndex(calls[i]) < KindIndex(calls[j])
    /\ KubernetesObjects = Fetched

C4_Witness ==
    /\ Len(KubernetesObjects) >= 2
    /\ KubernetesObjects[1].Kind # KubernetesObjects[2].Kind
    /\ KubernetesObjects[1].Object # KubernetesObjects[2].Object
    /\ pc = "done"

\* C5: no report carries the namespace and name of an object whose exclusion
\* key matches the exclude pattern; an object is logged as ignored only if its
\* key matches, and after a completed scan every stored object whose key
\* matches was logged as ignored; with Except empty nothing is ignored.
C5_ExcludedNeverReported ==
    /\ \A j \in DOMAIN logs :
          /\ IsReport(logs[j]) => ~KeyExcluded(logs[j].attrs[3], logs[j].attrs[2])
          /\ IsIgnoredLine(logs[j]) => KeyExcluded(logs[j].attrs[3], logs[j].attrs[2])
    /\ pc = "done" =>
          \A i \in DOMAIN KubernetesObjects :
              KeyExcluded(KubernetesObjects[i].Namespace, KubernetesObjects[i].Name) =>
                  \E j \in DOMAIN logs :
                      /\ IsIgnoredLine(logs[j])
                      /\ logs[j].attrs = <<KubernetesObjects[i].Kind, KubernetesObjects[i].Name,
                                           KubernetesObjects[i].Namespace>>
    /\ Except = <<>> => \A j \in DOMAIN logs : ~IsIgnoredLine(logs[j])

C5_Witness ==
    /\ pc = "done"
    /\ Except = <<"^","n","s","1","/","p","1","$">>
    /\ \E i \in DOMAIN KubernetesObjects :
          /\ KeyExcluded(KubernetesObjects[i].Namespace, KubernetesObjects[i].Name)
          /\ Matches(KubernetesObjects[i]) # <<>>
    /\ Reports # <<>>

\* C6: once the scan phase has run, the reports are exactly one per match of
\* every non-excluded object, each the original text from max(0, s - r) to
\* min(L, e + r) with newlines replaced by spaces.
C6_ReportsAreClampedWindows ==
    Scanned => Reports = WindowReports

\* C7: once the scan phase has completed, every non-excluded object whose
\* lowercased text contains the lowercased pattern has a report, and the lines
\* logged are those the lowercased pattern gives.
C7_CaseInsensitiveInPattern ==
    pc = "done" =>
        /\ \A i \in DOMAIN KubernetesObjects :
              ( /\ ~KeyExcluded(KubernetesObjects[i].Namespace, KubernetesObjects[i].Name)
                /\ MatchString(Compile(ToLower(WhatToSearch)), ToLower(KubernetesObjects[i].Object)) )
              => \E j \in DOMAIN Reports :
                     Reports[j].attrs = <<KubernetesObjects[i].Kind, KubernetesObjects[i].Name,
                                          KubernetesObjects[i].Namespace>>
        /\ SelectSeq(searchObjects(KubernetesObjects, Compile(ToLower(WhatToSearch)),
                                   exceptRe, 1, <<>>).lines, IsReport) = Reports

\* C8: when a required setting is empty or a pattern does not compile, the
\* cluster client is never built, no provider call is made, and main does not
\* get past Init.
C8_BadConfigurationNoClient ==
    BadConfiguration =>
        /\ clientBuilds = 0
        /\ clientset = nil
        /\ calls = <<>>
        /\ pc \in {"main", "Init", "fatal"}
        /\ pc = "fatal" => err # NoError

C8_Witness ==
    /\ pc = "fatal"
    /\ Kubeconfig # <<>> /\ WhereToSearch # <<>> /\ WhatToSearch # <<>>
    /\ ~CompileFails(WhatToSearch)
    /\ CompileFails(Except)
    /\ err = Error("error in regexp.Compile ", Except)

\* C9: the step that runs search leaves the store, the settings and the
\* compiled patterns as they were, and what it logged is what search logs
\* when run over the state it left.
C9_SearchReadOnly ==
    [][ (pc = "Run" /\ pc' \in {"done", "panic"}) =>
            /\ KubernetesObjects' = KubernetesObjects
            /\ <<Kubeconfig, WhereToSearch, WhatToSearch, Except>>'
                   = <<Kubeconfig, WhereToSearch, WhatToSearch, Except>>
            /\ <<whatToSearchRe, exceptRe>>' = <<whatToSearchRe, exceptRe>>
            /\ logs' = logs \o searchObjects(KubernetesObjects', whatToSearchRe', exceptRe',
                                            1, <<>>).lines ]_vars

C9_Witness ==
    /\ pc = "done"
    /\ Len(KubernetesObjects) >= 2
    /\ Reports # <<>>
    /\ \E j \in DOMAIN logs : IsIgnoredLine(logs[j])

\* C10: the scan phase never panics: for every match of every stored object
\* that is not excluded, the window satisfies 0 <= start <= end <= len(text).
C10_WindowWithinText ==
    Scanned =>
        /\ pc # "panic"
        /\ \A i \in DOMAIN KubernetesObjects :
              ~KeyExcluded(KubernetesObjects[i].Namespace, KubernetesObjects[i].Name) =>
                  \A j \in DOMAIN Matches(KubernetesObjects[i]) :
                      LET w == Window(KubernetesObjects[i], Matches(KubernetesObjects[i])[j])
                      IN  SliceOK(KubernetesObjects[i].Object, w.start, w.end)

====
